---- MODULE Spec2Model ----
(***************************************************************************)
(* Session-based authentication flow of src/index.js: signup, login,       *)
(* logout and the protected home page, over the User collection            *)
(* (models/User.js), the express-validator chains (middleware/             *)
(* validation.js) and the express-session / connect-mongo session store.   *)
(*                                                                         *)
(* Strings are sequences of one-character strings.  Requests are those     *)
(* admitted by the global rate limiter; the limiter of the auth routes is  *)
(* AuthLimiter, and SpecLimiter is the specification that runs behind it.  *)
(***************************************************************************)
EXTENDS Integers, Sequences, FiniteSets, TLC

Min(S) == CHOOSE x \in S : \A y \in S : x <= y
Max(S) == CHOOSE x \in S : \A y \in S : x >= y

(***************************************************************************)
(* Characters                                                              *)
(***************************************************************************)
Lower == <<"a","b","c","d","e","f","g","h","i","j","k","l","m",
           "n","o","p","q","r","s","t","u","v","w","x","y","z">>
Upper == <<"A","B","C","D","E","F","G","H","I","J","K","L","M",
           "N","O","P","Q","R","S","T","U","V","W","X","Y","Z">>
Letters == {Lower[i] : i \in 1..26} \cup {Upper[i] : i \in 1..26}
Digits == {"0","1","2","3","4","5","6","7","8","9"}
Whitespace == {" ", "\t"}
\* the printable specials of validator's emailUserUtf8Part
EmailSpecials == {"!","#","$","%","&","*","+","-","/","=","?","^","_","{","|","}","~"}

ToLowerChar(c) == IF \E i \in 1..26 : Upper[i] = c
                  THEN Lower[CHOOSE i \in 1..26 : Upper[i] = c]
                  ELSE c
ToLower(s) == [i \in 1..Len(s) |-> ToLowerChar(s[i])]
ToUpperChar(c) == IF \E i \in 1..26 : Lower[i] = c
                  THEN Upper[CHOOSE i \in 1..26 : Lower[i] = c]
                  ELSE c
ToUpper(s) == [i \in 1..Len(s) |-> ToUpperChar(s[i])]

\* String.prototype.trim, as validator's trim() sanitizer and mongoose's trim setter
Trim(s) ==
  LET ns == {i \in 1..Len(s) : s[i] \notin Whitespace}
  IN IF ns = {} THEN <<>> ELSE SubSeq(s, Min(ns), Max(ns))

RECURSIVE Split(_, _)
\* String.prototype.split on a one-character separator
Split(s, c) ==
  LET at == {i \in 1..Len(s) : s[i] = c}
  IN IF at = {} THEN <<s>>
     ELSE <<SubSeq(s, 1, Min(at) - 1)>> \o Split(SubSeq(s, Min(at) + 1, Len(s)), c)

RECURSIVE Join(_, _)
\* Array.prototype.join with a separator string
Join(parts, sep) ==
  IF Len(parts) = 0 THEN <<>>
  ELSE IF Len(parts) = 1 THEN parts[1]
  ELSE parts[1] \o sep \o Join(Tail(parts), sep)

\* everything before the last element
Front(parts) == SubSeq(parts, 1, Len(parts) - 1)
Last(parts) == parts[Len(parts)]

(***************************************************************************)
(* Input Validator (middleware/validation.js)                              *)
(***************************************************************************)
UsernameMin == 3
UsernameMax == 30
PasswordMin == 6

\* .isLength({min, max})
IsLength(s, lo, hi) == Len(s) >= lo /\ Len(s) <= hi

\* .matches(/^[a-zA-Z0-9_]+$/)
MatchesUsername(s) ==
  /\ Len(s) >= 1
  /\ \A i \in 1..Len(s) : s[i] \in Letters \cup Digits \cup {"_"}

\* validator's isFQDN with require_tld, no underscores, no trailing dot
IsFQDN(d) ==
  LET labels == Split(d, ".")
      tld == Last(labels)
  IN /\ Len(labels) >= 2
     /\ Len(tld) >= 2
     /\ \A i \in 1..Len(tld) : tld[i] \in Letters
     /\ \A k \in 1..Len(labels) :
          LET l == labels[k]
          IN /\ Len(l) >= 1
             /\ Len(l) <= 63
             /\ \A i \in 1..Len(l) : l[i] \in Letters \cup Digits \cup {"-"}
             /\ l[1] # "-"
             /\ l[Len(l)] # "-"

\* validator's isEmail with its default options: the part after the last "@"
\* is a domain name; a local part between double quotes is checked as a
\* quoted string (which admits whitespace), any other as dot-separated
\* non-empty atoms
IsEmail(s) ==
  LET parts == Split(s, "@")
      domain == Last(parts)
      user == Join(Front(parts), <<"@">>)
  IN /\ Len(user) <= 64
     /\ Len(domain) <= 254
     /\ IsFQDN(domain)
     /\ IF Len(user) >= 1 /\ user[1] = "\"" /\ user[Len(user)] = "\""
        THEN LET q == SubSeq(user, 2, Len(user) - 1)
             IN \A i \in 1..Len(q) :
                  q[i] \in Letters \cup Digits \cup EmailSpecials \cup Whitespace
                           \cup {".", "@", "(", ")", ",", ":", ";", "<", ">", "[", "]"}
        ELSE LET atoms == Split(user, ".")
             IN \A k \in 1..Len(atoms) :
                  /\ Len(atoms[k]) >= 1
                  /\ \A i \in 1..Len(atoms[k]) :
                       atoms[k][i] \in Letters \cup Digits \cup EmailSpecials

GmailDomain == <<"g","m","a","i","l",".","c","o","m">>
GooglemailDomain == <<"g","o","o","g","l","e","m","a","i","l",".","c","o","m">>

\* validator's normalizeEmail with its default options: the domain is
\* lower-cased; a Gmail address loses its sub-address and its dots; the local
\* part is lower-cased (all_lowercase)
NormalizeEmail(s) ==
  LET parts == Split(s, "@")
      domain == ToLower(Last(parts))
      user == Join(Front(parts), <<"@">>)
  IN IF domain \in {GmailDomain, GooglemailDomain}
     THEN LET base == Split(user, "+")[1]
              nodots == SelectSeq(base, LAMBDA c : c # ".")
          IN ToLower(nodots) \o <<"@">> \o GmailDomain
     ELSE ToLower(user) \o <<"@">> \o domain

MsgUsernameLength == "Username must be between 3 and 30 characters"
MsgUsernameChars == "Username can only contain letters, numbers, and underscores"
MsgEmail == "Please provide a valid email"
MsgPasswordLength == "Password must be at least 6 characters long"
MsgConfirm == "Passwords do not match"
MsgPasswordRequired == "Password is required"

\* chains without the check of the confirmation
ValidateSignupNoConfirm(b) ==
  LET u == Trim(b.username)
      e == Trim(b.email)
  IN (IF IsLength(u, UsernameMin, UsernameMax) THEN <<>> ELSE <<MsgUsernameLength>>)
     \o (IF MatchesUsername(u) THEN <<>> ELSE <<MsgUsernameChars>>)
     \o (IF IsEmail(e) THEN <<>> ELSE <<MsgEmail>>)
     \o (IF Len(b.password) >= PasswordMin THEN <<>> ELSE <<MsgPasswordLength>>)

\* validateSignup: the errors of the four chains in order; every failing
\* validator of a chain adds its message (the chains do not bail)
ValidateSignupErrors(b) ==
  LET u == Trim(b.username)
      e == Trim(b.email)
  IN (IF IsLength(u, UsernameMin, UsernameMax) THEN <<>> ELSE <<MsgUsernameLength>>)
     \o (IF MatchesUsername(u) THEN <<>> ELSE <<MsgUsernameChars>>)
     \o (IF IsEmail(e) THEN <<>> ELSE <<MsgEmail>>)
     \o (IF Len(b.password) >= PasswordMin THEN <<>> ELSE <<MsgPasswordLength>>)
     \o (IF b.confirm = b.password THEN <<>> ELSE <<MsgConfirm>>)

\* validateLogin
ValidateLoginErrors(b) ==
  LET e == Trim(b.email)
  IN (IF IsEmail(e) THEN <<>> ELSE <<MsgEmail>>)
     \o (IF Len(b.password) >= 1 THEN <<>> ELSE <<MsgPasswordRequired>>)

\* a login chain that trims the email and leaves it at that
SanitizeLoginTrimOnly(b) == [b EXCEPT !.email = Trim(b.email)]

\* req.body after the sanitizers of the chains ran (trim, normalizeEmail)
SanitizeSignup(b) ==
  [b EXCEPT !.username = Trim(b.username), !.email = NormalizeEmail(Trim(b.email))]
SanitizeLogin(b) ==
  [b EXCEPT !.email = NormalizeEmail(Trim(b.email))]

\* messages.join(', '): the messages with the separator between them
JoinMessages(msgs) == Join([i \in 1..Len(msgs) |-> <<msgs[i]>>], <<", ">>)

(***************************************************************************)
(* Password Hasher (bcryptjs)                                              *)
(***************************************************************************)
\* the salt bcrypt generates for the n-th hash it computes
Salts == <<"salt1", "salt2", "salt3", "salt4", "salt5", "salt6", "salt7", "salt8">>
SaltOf(n) == Salts[n]

\* bcrypt.hash(password, 12): version and cost, the salt, then the digest of
\* the password under that salt (the digest stands for the password it was
\* computed from; nothing but Compare reads it)
Hash(p, salt) == <<"$2a$12$", salt>> \o p

\* bcrypt.compare(password, hash): false for anything that is not a hash
Compare(p, h) ==
  /\ Len(h) >= 2
  /\ h[1] = "$2a$12$"
  /\ SubSeq(h, 3, Len(h)) = p

(***************************************************************************)
(* Credential Store (models/User.js)                                       *)
(***************************************************************************)
NoUser == [id |-> 0, username |-> <<>>, email |-> <<>>, password |-> <<>>]

\* match: [/^\S+@\S+\.\S+$/, "Invalid email format"]
SchemaEmailMatch(s) ==
  /\ \A i \in 1..Len(s) : s[i] \notin Whitespace
  /\ \E i, j \in 1..Len(s) :
       /\ s[i] = "@" /\ s[j] = "."
       /\ i >= 2 /\ j >= i + 2 /\ j <= Len(s) - 1

\* the schema's setters, run on a document and on a query's values:
\* username trim; email lowercase, trim
CastUsername(u) == Trim(u)
CastEmail(e) == Trim(ToLower(e))

\* the schema's validators, run by save()
SchemaValid(d) ==
  /\ Len(d.username) >= UsernameMin /\ Len(d.username) <= UsernameMax
  /\ Len(d.email) >= 1 /\ SchemaEmailMatch(d.email)
  /\ Len(d.password) >= PasswordMin

\* the collection without its unique indexes
UniqueViolatedNoIndex(us, d) == FALSE

\* unique: true on username and on email: the indexes reject a document
\* whose username or email a stored document has
UniqueViolated(us, d) ==
  \E x \in us : x.username = d.username \/ x.email = d.email

\* User.findOne({ $or: [{ username }, { email }] })
FindByUsernameOrEmail(us, username, email) ==
  {x \in us : x.username = CastUsername(username) \/ x.email = CastEmail(email)}

\* User.findOne({ email }).select("+password")
FindByEmail(us, email) == {x \in us : x.email = CastEmail(email)}

\* User.findById(id).select("username")
FindById(us, id) == {x \in us : x.id = id}

\* new User({...}).save(): "ok", or the error it rejects with
SaveResult(us, doc) ==
  LET d == [doc EXCEPT !.username = CastUsername(doc.username),
                       !.email = CastEmail(doc.email)]
  IN IF ~SchemaValid(d) THEN "ValidationError"
     ELSE IF UniqueViolated(us, d) THEN "DuplicateKey"
     ELSE "ok"

(***************************************************************************)
(* Session Manager (express-session over connect-mongo)                    *)
(***************************************************************************)
\* clock ticks in a day: the unit the three durations below are written in
TicksPerDay == 2
\* cookie.maxAge: 24 * 60 * 60 * 1000 ms
MaxAge == TicksPerDay
\* touchAfter: 24 * 3600 s
TouchAfter == TicksPerDay
\* ttl: 14 * 24 * 60 * 60 s, for a session whose cookie has no expiry
Ttl == 14 * TicksPerDay

NoSid == 0
NoSession == [userId |-> 0, expires |-> 0, lastModified |-> 0]

\* a get that returns a stored record whatever its expiry
StoreGetAnyAge(store, sid, t) ==
  IF sid \in DOMAIN store THEN store[sid] ELSE NoSession

\* MongoStore.get: the record of sid unless absent or expired
StoreGet(store, sid, t) ==
  IF sid \in DOMAIN store /\ store[sid].expires > t THEN store[sid] ELSE NoSession

\* MongoStore.set: upsert of the record, expiring with its cookie
StoreSet(store, sid, userId, cookieExpires, t) ==
  [s \in DOMAIN store \cup {sid} |->
     IF s = sid
     THEN [userId |-> userId,
           expires |-> IF cookieExpires > 0 THEN cookieExpires ELSE t + Ttl,
           lastModified |-> IF TouchAfter > 0 THEN t ELSE 0]
     ELSE store[s]]

\* MongoStore.touch with the session as the request loaded it: skipped while
\* the record was modified less than touchAfter ago, else the record (if still
\* stored) takes the cookie's expiry
StoreTouch(store, sid, sess, cookieExpires, t) ==
  IF TouchAfter > 0 /\ sess.lastModified > 0 /\ t - sess.lastModified < TouchAfter
  THEN store
  ELSE IF sid \notin DOMAIN store THEN store
  ELSE [store EXCEPT ![sid] =
          [@ EXCEPT !.expires = IF cookieExpires > 0 THEN cookieExpires ELSE t + Ttl,
                    !.lastModified =
                       IF TouchAfter > 0 /\ sess.lastModified > 0 THEN t ELSE @]]

\* MongoStore.destroy: idempotent removal
StoreDestroy(store, sid) == [s \in DOMAIN store \ {sid} |-> store[s]]

\* Session.touch(): cookie.maxAge = originalMaxAge
CookieExpires(t) == t + MaxAge

(***************************************************************************)
(* Inputs                                                                  *)
(***************************************************************************)
NumClients == 2
MaxUserIds == 3
MaxSids == 1
MaxTime == 3

Clients == 1..NumClients

Ann == <<"a","n","n">>
Bob == <<"b","o","b">>
Secret == <<"s","e","c","r","e","t">>
Hunter == <<"h","u","n","t","e","r">>
EmailA == <<"a","@","x",".","i","o">>
EmailB == <<"b","@","x",".","i","o">>

\* the submitted signup forms: two that share a username, two that share an
\* email up to case and padding, one whose quoted local part holds a space,
\* one that breaks every rule
SignupAnn == [username |-> Ann, email |-> EmailA, password |-> Secret, confirm |-> Secret]
SignupAnnAgain ==
  [username |-> Ann, email |-> EmailB, password |-> Hunter, confirm |-> Hunter]
SignupBobPadded ==
  [username |-> <<" ">> \o Bob, email |-> <<"A","@","X",".","i","o"," ">>,
   password |-> Secret, confirm |-> Secret]
SignupBobQuoted ==
  [username |-> Bob, email |-> <<"\"","a"," ","b","\"","@","x",".","i","o">>,
   password |-> Secret, confirm |-> Secret]
SignupMalformed ==
  [username |-> <<"a","-">>, email |-> <<"a","@","x">>,
   password |-> <<"1","2","3","4","5">>, confirm |-> <<"1","2","3","4">>]
SignupForms ==
  {SignupAnn, SignupAnnAgain, SignupBobPadded, SignupBobQuoted, SignupMalformed}

\* the submitted login forms: an email with its password, the same email in
\* another case with another password, a second email, a malformed form
LoginA == [username |-> <<>>, email |-> EmailA, password |-> Secret, confirm |-> <<>>]
LoginAOtherPassword ==
  [username |-> <<>>, email |-> <<"A","@","x",".","I","O">>, password |-> Hunter,
   confirm |-> <<>>]
LoginB == [username |-> <<>>, email |-> EmailB, password |-> Hunter, confirm |-> <<>>]
LoginMalformed ==
  [username |-> <<>>, email |-> <<"a","@","x">>, password |-> <<>>, confirm |-> <<>>]
LoginForms == {LoginA, LoginAOtherPassword, LoginB, LoginMalformed}

\* signup forms around the limits of each rule: usernames too short, at both
\* limits, too long, padded, with a character outside the class; emails
\* well-formed but padded, and without a top-level domain; passwords below and at
\* the minimum; confirmations equal and different
Digits5 == <<"1","2","3","4","5">>
Digits6 == <<"1","2","3","4","5","6">>
ProbeUsernames ==
  { <<"a","b">>, <<"a","-">>, <<"a","_","9">>, <<" ","a","b","c"," ">>, <<"a","-","c">>,
    [i \in 1..UsernameMax |-> "a"], [i \in 1..(UsernameMax + 1) |-> "a"] }
ProbeEmails == { <<" ">> \o EmailB \o <<" ">>, <<"a","@","x">> }
ProbeForms ==
  { [username |-> u, email |-> e, password |-> p, confirm |-> k] :
      u \in ProbeUsernames, e \in ProbeEmails,
      p \in {Digits5, Digits6}, k \in {Digits5, Digits6} }

\* signups whose emails differ from what is stored for them (case, padding,
\* the dots and the sub-address of a Gmail address), and for each the logins
\* with its password and its email as typed, in upper case, in lower case and
\* in alternating case
Carol == <<"c","a","r","o","l">>
EmailGmail == <<"C",".","d","+","x","@","G","m","a","i","l",".","c","o","m">>
SignupCarol ==
  [username |-> Carol, email |-> EmailGmail, password |-> Hunter, confirm |-> Hunter]
RoundTripSignups == {SignupAnn, SignupBobPadded, SignupCarol}
Alternate(s) ==
  [i \in 1..Len(s) |-> IF i % 2 = 1 THEN ToUpperChar(s[i]) ELSE ToLowerChar(s[i])]
CaseVariants(e) == {e, ToUpper(e), ToLower(e), Alternate(e)}
VariantLogins(signup) ==
  { [username |-> <<>>, email |-> v, password |-> signup.password, confirm |-> <<>>] :
      v \in CaseVariants(signup.email) }
RoundTripLogins == UNION {VariantLogins(signup) : signup \in RoundTripSignups}

\* what the chains make of each submitted form
AllSignupForms == SignupForms \cup ProbeForms \cup RoundTripSignups
AllLoginForms == LoginForms \cup RoundTripLogins
SignupErrors == [f \in AllSignupForms |-> ValidateSignupErrors(f)]
SignupSanitized == [f \in AllSignupForms |-> SanitizeSignup(f)]
LoginErrors == [f \in AllLoginForms |-> ValidateLoginErrors(f)]
LoginSanitized == [f \in AllLoginForms |-> SanitizeLogin(f)]

(***************************************************************************)
(* State                                                                   *)
(***************************************************************************)
VARIABLES
  users,      \* the User collection: records [id, username, email, password]
  nextId,     \* the next _id the collection assigns
  sessions,   \* the session collection: sid -> [userId, expires, lastModified]
  nextSid,    \* the next session id express-session generates for a saved session
  now,        \* the clock
  reqs,       \* per client, the request in flight
  last,       \* the request answered most recently, with its response
  pending,    \* session ids whose destroy was issued without waiting for it
  issued,     \* history: sid -> the time a login last stored a session under it
  loggedOut,  \* history: the sids a logout destroyed
  orphaned,   \* history: the sids GET /home had destroyed for want of their user
  registry,   \* history: every User stored, with the password it was submitted with
  rejected,   \* history: the 401 responses of the login handler, by their cause
  hits,       \* authLimiter: per client, the requests counted in the current window
  passed      \* history: per client, the requests of the window that reached validation

hist == <<loggedOut, orphaned, registry, rejected>>
limiter == <<hits, passed>>
vars == <<users, nextId, sessions, nextSid, now, reqs, last, pending, issued, hist,
          limiter>>

NoBody == [username |-> <<>>, email |-> <<>>, password |-> <<>>, confirm |-> <<>>]
NoResp == [status |-> 0, view |-> "", message |-> <<>>, backUrl |-> "",
           location |-> "", username |-> <<>>, setCookie |-> NoSid]

\* res.redirect(location)
Redirect(location) == [NoResp EXCEPT !.status = 302, !.location = location]
\* res.status(status).render("error", { message, backUrl })
RenderError(status, message, backUrl) ==
  [NoResp EXCEPT !.status = status, !.view = "error", !.message = message,
                 !.backUrl = backUrl]
\* res.render("home", { username })
RenderHome(username) ==
  [NoResp EXCEPT !.status = 200, !.view = "home", !.username = username]

\* res.render(view) of a form
RenderView(view) == [NoResp EXCEPT !.status = 200, !.view = view]

\* no request.  route, pc, cookie, sid (req.sessionID of a
\* loaded session), sess (req.session as loaded), body (req.body, after the
\* sanitizers once the form is accepted), found (the User a lookup returned)
\* and resp are the request; live, cause, created and destroyed record what
\* the request met and did, for the properties below
Idle == [route |-> "", pc |-> "idle", cookie |-> NoSid, sid |-> NoSid,
         sess |-> NoSession, body |-> NoBody, found |-> NoUser, resp |-> NoResp,
         live |-> FALSE, cause |-> "", created |-> 0, destroyed |-> NoSid]

Init ==
  /\ users = {}
  /\ nextId = 1
  /\ sessions = << >>
  /\ nextSid = 1
  /\ now = 1
  /\ reqs = [c \in Clients |-> Idle]
  /\ last = Idle
  /\ pending = {}
  /\ issued = << >>
  /\ loggedOut = {}
  /\ orphaned = {}
  /\ registry = {}
  /\ rejected = {}
  /\ hits = [c \in Clients |-> 0]
  /\ passed = [c \in Clients |-> 0]

\* the collection after two signups: bob with EmailA, ann with EmailB
Registered ==
  { [id |-> 1, username |-> Bob, email |-> EmailA, password |-> Hash(Secret, SaltOf(1))],
    [id |-> 2, username |-> Ann, email |-> EmailB, password |-> Hash(Hunter, SaltOf(2))] }

InitRegistered ==
  /\ users = Registered
  /\ nextId = 3
  /\ sessions = << >>
  /\ nextSid = 1
  /\ now = 1
  /\ reqs = [c \in Clients |-> Idle]
  /\ last = Idle
  /\ pending = {}
  /\ issued = << >>
  /\ loggedOut = {}
  /\ orphaned = {}
  /\ rejected = {}
  /\ hits = [c \in Clients |-> 0]
  /\ passed = [c \in Clients |-> 0]
  /\ registry = { [user |-> u, plain |-> IF u.id = 1 THEN Secret ELSE Hunter] :
                  u \in Registered }

\* the cookies a client may present: none (or one whose signature fails), or
\* any session id ever issued
Cookies == {NoSid} \cup DOMAIN issued

Free(c) == reqs[c].pc = "idle"

\* the session middleware at the start of a request: the stored session of
\* the cookie, or a new session that is stored only once it is modified
Arrive(route, cookie, body) ==
  LET sess == StoreGet(sessions, cookie, now)
  IN [Idle EXCEPT !.route = route, !.cookie = cookie,
                  !.sid = IF sess # NoSession THEN cookie ELSE NoSid,
                  !.sess = sess, !.body = body,
                  !.live = cookie \in DOMAIN sessions /\ sessions[cookie].expires > now]

\* the session middleware at the end of a response that left the session
\* as loaded: a loaded session is touched, a new one is dropped
EndUnmodified(r) ==
  IF r.sid = NoSid THEN sessions
  ELSE StoreTouch(sessions, r.sid, r.sess, CookieExpires(now), now)

\* the response leaves: what is kept of an answered request
Done(c, r, resp, cause) ==
  /\ reqs' = [reqs EXCEPT ![c] = Idle]
  /\ last' = [Idle EXCEPT !.route = r.route, !.pc = "done", !.cookie = r.cookie,
                          !.sid = r.sid, !.live = r.live, !.created = r.created,
                          !.destroyed = r.destroyed, !.resp = resp, !.cause = cause]

(***************************************************************************)
(* POST /signup                                                            *)
(***************************************************************************)
MsgRegistered == "Email or username already registered"
MsgSignupFailed == "Registration failed. Try again."
MsgInvalidLogin == "Invalid email or password"
MsgLoginFailed == "Login failed. Try again."
MsgServerError == "Server error occurred"

\* a handler that reports the first message only
ValidationResponseFirst(errors, originalUrl) ==
  RenderError(400, <<errors[1]>>, originalUrl)

\* handleValidationErrors: 400 with the messages joined, back to the url asked
ValidationResponse(errors, originalUrl) ==
  RenderError(400, JoinMessages(errors), originalUrl)

\* a catch that answers with the message of the error it caught
CaughtErrorMessage(route) == RenderError(500, <<"MongoNetworkError">>, "/")

\* the 500 of each handler's catch
CaughtError(route) ==
  IF route = "signup" THEN RenderError(500, <<MsgSignupFailed>>, "/signup")
  ELSE IF route = "login" THEN RenderError(500, <<MsgLoginFailed>>, "/")
  ELSE RenderError(500, <<MsgServerError>>, "/")

\* the 400 of the signup handler when its lookup finds a user
SignupExisting == RenderError(400, <<MsgRegistered>>, "/signup")

\* new User({ username, email, password: hashed })
SignupDoc(body, salt) ==
  [id |-> 0, username |-> body.username, email |-> body.email,
   password |-> Hash(body.password, salt)]

\* validateSignup, handleValidationErrors: a rejected form is answered in
\* the turn its session was loaded in (nothing is awaited from a store in
\* between); an accepted one enters the handler, which issues the findOne
SignupBegin(c, cookie, form) ==
  /\ Free(c)
  /\ LET r == Arrive("signup", cookie, form)
         errors == SignupErrors[form]
     IN IF errors # <<>>
        THEN /\ Done(c, r, ValidationResponse(errors, "/signup"), "invalid")
             /\ sessions' = EndUnmodified(r)
        ELSE /\ nextId + Cardinality({d \in Clients :
                                        reqs[d].route = "signup" /\ ~Free(d)})
                  <= MaxUserIds
             /\ reqs' = [reqs EXCEPT ![c] = [r EXCEPT !.pc = "find",
                                                      !.body = SignupSanitized[form]]]
             /\ UNCHANGED <<sessions, last>>
  /\ UNCHANGED <<users, nextId, nextSid, now, pending, issued, hist>>

\* the findOne resolves: a match answers 400, no match goes on to hash and save
SignupFind(c) ==
  /\ reqs[c].route = "signup" /\ reqs[c].pc = "find"
  /\ LET r == reqs[c]
         existing == FindByUsernameOrEmail(users, r.body.username, r.body.email)
     IN IF existing # {}
        THEN /\ Done(c, r, SignupExisting, "existing")
             /\ sessions' = EndUnmodified(r)
        ELSE /\ reqs' = [reqs EXCEPT ![c].pc = "save"]
             /\ UNCHANGED <<sessions, last>>
  /\ UNCHANGED <<users, nextId, nextSid, now, pending, issued, hist, limiter>>

\* bcrypt.hash, then save(): stored and redirected, or rejected by the
\* schema or by a unique index and answered 500 by the catch
SignupSave(c) ==
  /\ reqs[c].route = "signup" /\ reqs[c].pc = "save"
  /\ LET r == reqs[c]
         doc == SignupDoc(r.body, SaltOf(nextId))
         result == SaveResult(users, doc)
         stored == [doc EXCEPT !.id = nextId,
                               !.username = CastUsername(doc.username),
                               !.email = CastEmail(doc.email)]
     IN IF result = "ok"
        THEN /\ users' = users \cup {stored}
             /\ registry' = registry \cup {[user |-> stored, plain |-> r.body.password]}
             /\ nextId' = nextId + 1
             /\ Done(c, [r EXCEPT !.created = nextId], Redirect("/"), "ok")
        ELSE /\ Done(c, r, CaughtError("signup"), result)
             /\ UNCHANGED <<users, registry, nextId>>
  /\ sessions' = EndUnmodified(reqs[c])
  /\ UNCHANGED <<nextSid, now, pending, issued, loggedOut, orphaned, rejected, limiter>>

(***************************************************************************)
(* POST /login                                                             *)
(***************************************************************************)
\* the answers of routes/authRoutes.js, which tell the two causes apart
LoginRejectedLegacy(found) ==
  IF found = {} THEN [NoResp EXCEPT !.status = 200, !.message = <<"User not found!">>]
  ELSE [NoResp EXCEPT !.status = 200, !.message = <<"Invalid credentials!">>]

\* the 401 of the handler, for an unknown email (found = {}) and for a
\* wrong password alike
LoginRejected(found) == RenderError(401, <<MsgInvalidLogin>>, "/")

\* req.session.userId = user._id
LoginUserId(user) == user.id

\* validateLogin, handleValidationErrors, then the handler's findOne
LoginBegin(c, cookie, form) ==
  /\ Free(c)
  /\ LET r == Arrive("login", cookie, form)
         errors == LoginErrors[form]
     IN IF errors # <<>>
        THEN /\ Done(c, r, ValidationResponse(errors, "/login"), "invalid")
             /\ sessions' = EndUnmodified(r)
        ELSE /\ r.sid = NoSid =>
                  nextSid + Cardinality({d \in Clients :
                                           /\ reqs[d].route = "login" /\ ~Free(d)
                                           /\ reqs[d].sid = NoSid})
                    <= MaxSids
             /\ reqs' = [reqs EXCEPT ![c] = [r EXCEPT !.pc = "find",
                                                      !.body = LoginSanitized[form]]]
             /\ UNCHANGED <<sessions, last>>
  /\ UNCHANGED <<users, nextId, nextSid, now, pending, issued, hist>>

\* the findOne resolves: no user answers 401, a user goes on to bcrypt.compare
LoginFind(c) ==
  /\ reqs[c].route = "login" /\ reqs[c].pc = "find"
  /\ LET r == reqs[c]
         found == FindByEmail(users, r.body.email)
     IN IF found = {}
        THEN /\ Done(c, r, LoginRejected(found), "unknown")
             /\ rejected' = rejected \cup {[cause |-> "unknown", resp |-> LoginRejected(found)]}
             /\ sessions' = EndUnmodified(r)
        ELSE /\ \E user \in found :
                  reqs' = [reqs EXCEPT ![c].pc = "compare", ![c].found = user]
             /\ UNCHANGED <<sessions, last, rejected>>
  /\ UNCHANGED <<users, nextId, nextSid, now, pending, issued, loggedOut, orphaned,
                 registry, limiter>>

\* bcrypt.compare resolves: a mismatch answers 401; a match sets
\* req.session.userId and redirects, and the session middleware stores the
\* session under its id if that changed it (a new session always; a loaded
\* one when it held another userId) before the response leaves
LoginCompare(c) ==
  /\ reqs[c].route = "login" /\ reqs[c].pc = "compare"
  /\ LET r == reqs[c]
         userId == LoginUserId(r.found)
         sid == IF r.sid = NoSid THEN nextSid ELSE r.sid
     IN IF ~Compare(r.body.password, r.found.password)
        THEN /\ Done(c, r, LoginRejected({r.found}), "wrong")
             /\ rejected' = rejected \cup {[cause |-> "wrong", resp |-> LoginRejected({r.found})]}
             /\ sessions' = EndUnmodified(r)
             /\ UNCHANGED <<nextSid, issued>>
        ELSE IF r.sess.userId # userId
        THEN /\ sessions' = StoreSet(sessions, sid, userId, CookieExpires(now), now)
             /\ nextSid' = IF r.sid = NoSid THEN nextSid + 1 ELSE nextSid
             /\ issued' = [s \in DOMAIN issued \cup {sid} |->
                             IF s = sid THEN now ELSE issued[s]]
             /\ Done(c, [r EXCEPT !.sid = sid],
                     [Redirect("/home") EXCEPT !.setCookie = sid], "ok")
             /\ UNCHANGED rejected
        ELSE /\ sessions' = EndUnmodified(r)
             /\ Done(c, r, Redirect("/home"), "ok")
             /\ UNCHANGED <<nextSid, issued, rejected>>
  /\ UNCHANGED <<users, nextId, now, pending, loggedOut, orphaned, registry, limiter>>

(***************************************************************************)
(* Access-Control Gate, GET /home, POST /logout                            *)
(***************************************************************************)
\* a gate that lets every request through
RequireAuthOpen(sess) == TRUE

\* requireAuth: if (req.session?.userId) return next()
RequireAuth(sess) == sess.userId # 0

\* User.findById(req.session.userId).select("username")
HomeUser(us, sess) == {[u EXCEPT !.password = <<>>] : u \in FindById(us, sess.userId)}

\* if (!user) req.session.destroy(): the sessions the handler asks the store
\* to remove when the user of session sid is gone
HomeDestroys(sid) == {sid}

\* requireAuth, then the handler's findById
HomeBegin(c, cookie) ==
  /\ Free(c)
  /\ LET r == Arrive("home", cookie, NoBody)
     IN IF RequireAuth(r.sess)
        THEN reqs' = [reqs EXCEPT ![c] = [r EXCEPT !.pc = "find"]] /\ UNCHANGED last
        ELSE Done(c, r, Redirect("/"), "noauth")
  /\ UNCHANGED <<users, nextId, sessions, nextSid, now, pending, issued, hist, limiter>>

\* the findById resolves: no user issues the session's destroy and redirects
\* without waiting for it; a user renders the home view with its username
HomeFind(c) ==
  /\ reqs[c].route = "home" /\ reqs[c].pc = "find"
  /\ LET r == reqs[c]
         found == HomeUser(users, r.sess)
     IN IF found = {}
        THEN IF HomeDestroys(r.sid) # {}
             THEN /\ pending' = pending \cup HomeDestroys(r.sid)
                  /\ Done(c, [r EXCEPT !.destroyed = r.sid], Redirect("/"), "nouser")
                  /\ UNCHANGED sessions
             ELSE /\ Done(c, r, Redirect("/"), "nouser")
                  /\ sessions' = EndUnmodified(r)
                  /\ UNCHANGED pending
        ELSE /\ \E user \in found :
                  Done(c, [r EXCEPT !.found = user], RenderHome(user.username), "ok")
             /\ sessions' = EndUnmodified(r)
             /\ UNCHANGED pending
  /\ UNCHANGED <<users, nextId, nextSid, now, issued, hist, limiter>>

\* requireAuth, then req.session.destroy(callback)
LogoutBegin(c, cookie) ==
  /\ Free(c)
  /\ LET r == Arrive("logout", cookie, NoBody)
     IN IF RequireAuth(r.sess)
        THEN reqs' = [reqs EXCEPT ![c] = [r EXCEPT !.pc = "destroy"]] /\ UNCHANGED last
        ELSE Done(c, r, Redirect("/"), "noauth")
  /\ UNCHANGED <<users, nextId, sessions, nextSid, now, pending, issued, hist, limiter>>

\* the store removed the record (or found none) and calls back: redirect
LogoutDestroy(c) ==
  /\ reqs[c].route = "logout" /\ reqs[c].pc = "destroy"
  /\ sessions' = StoreDestroy(sessions, reqs[c].sid)
  /\ loggedOut' = loggedOut \cup {reqs[c].sid}
  /\ Done(c, [reqs[c] EXCEPT !.destroyed = reqs[c].sid], Redirect("/"), "ok")
  /\ UNCHANGED <<users, nextId, nextSid, now, pending, issued, orphaned, registry,
                 rejected, limiter>>

\* the store fails the removal and calls back with the error: redirect all the same
LogoutDestroyFails(c) ==
  /\ reqs[c].route = "logout" /\ reqs[c].pc = "destroy"
  /\ Done(c, reqs[c], Redirect("/"), "fault")
  /\ UNCHANGED <<users, nextId, sessions, nextSid, now, pending, issued, hist, limiter>>

(***************************************************************************)
(* GET / and GET /signup                                                   *)
(***************************************************************************)
\* an entry page that serves its form whatever the session
EntryResponseForm(sess, view) == RenderView(view)

\* if (req.session?.userId) return res.redirect("/home"); res.render(view)
EntryResponse(sess, view) ==
  IF sess.userId # 0 THEN Redirect("/home") ELSE RenderView(view)

\* app.get("/"): answered in the turn the session was loaded in
GetRoot(c, cookie) ==
  /\ Free(c)
  /\ LET r == Arrive("root", cookie, NoBody)
     IN /\ Done(c, r, EntryResponse(r.sess, "login"), "ok")
        /\ sessions' = EndUnmodified(r)
  /\ UNCHANGED <<users, nextId, nextSid, now, pending, issued, hist, limiter>>

\* app.get("/signup")
GetSignup(c, cookie) ==
  /\ Free(c)
  /\ LET r == Arrive("signupform", cookie, NoBody)
     IN /\ Done(c, r, EntryResponse(r.sess, "signup"), "ok")
        /\ sessions' = EndUnmodified(r)
  /\ UNCHANGED <<users, nextId, nextSid, now, pending, issued, hist, limiter>>

(***************************************************************************)
(* Failures and the environment                                            *)
(***************************************************************************)
\* an awaited Credential Store call (or the hash, or the compare) rejects:
\* the catch answers 500
StoreFault(c) ==
  /\ reqs[c].route \in {"signup", "login", "home"}
  /\ reqs[c].pc \in {"find", "save", "compare"}
  /\ Done(c, reqs[c], CaughtError(reqs[c].route), "fault")
  /\ sessions' = EndUnmodified(reqs[c])
  /\ UNCHANGED <<users, nextId, nextSid, now, pending, issued, hist, limiter>>

\* a destroy issued by GET /home reaches the store
DestroyLands(sid) ==
  /\ sid \in pending
  /\ pending' = pending \ {sid}
  /\ sessions' = StoreDestroy(sessions, sid)
  /\ orphaned' = orphaned \cup {sid}
  /\ UNCHANGED <<users, nextId, nextSid, now, reqs, last, issued, loggedOut, registry,
                 rejected, limiter>>

\* the store's TTL index removes an expired record
Sweep(sid) ==
  /\ sid \in DOMAIN sessions
  /\ sessions[sid].expires <= now
  /\ sessions' = StoreDestroy(sessions, sid)
  /\ UNCHANGED <<users, nextId, nextSid, now, reqs, last, pending, issued, hist, limiter>>

\* an account is removed from the collection (no route of the application
\* does it; the Home handler provides for it)
DeleteUser(u) ==
  /\ u \in users
  /\ users' = users \ {u}
  /\ UNCHANGED <<nextId, sessions, nextSid, now, reqs, last, pending, issued, hist, limiter>>

Tick ==
  /\ now < MaxTime
  /\ now' = now + 1
  /\ UNCHANGED <<users, nextId, sessions, nextSid, reqs, last, pending, issued, hist, limiter>>

(***************************************************************************)
(* Rate limiter of the auth routes                                         *)
(***************************************************************************)
AuthMax == 5
MaxHits == 6

MsgTooMany == "Too many requests, please try again later."
TooMany == [NoResp EXCEPT !.status = 429, !.message = <<MsgTooMany>>]

AdmitsAll(count) == TRUE

\* the request that makes the count of its window exceed max is refused
Admits(count) == count <= AuthMax

\* authLimiter in front of a route: the one instance counts the requests of
\* POST /signup and POST /login together, per client address; it runs after
\* the session middleware has loaded the session and before the validators.
\* An admitted request goes on to Handle; a refused one is answered 429 in
\* the same turn
AuthLimiter(c, route, cookie, Handle) ==
  /\ Free(c)
  /\ hits[c] < MaxHits
  /\ hits' = [hits EXCEPT ![c] = @ + 1]
  /\ IF Admits(hits[c] + 1)
     THEN /\ passed' = [passed EXCEPT ![c] = @ + 1]
          /\ Handle
     ELSE /\ LET r == Arrive(route, cookie, NoBody)
             IN /\ Done(c, r, TooMany, "limited")
                /\ sessions' = EndUnmodified(r)
          /\ UNCHANGED <<users, nextId, nextSid, now, pending, issued, hist, passed>>

\* windowMs after the window of a client began its count starts again
WindowReset(c) ==
  /\ hits[c] > 0
  /\ hits' = [hits EXCEPT ![c] = 0]
  /\ passed' = [passed EXCEPT ![c] = 0]
  /\ UNCHANGED <<users, nextId, sessions, nextSid, now, reqs, last, pending, issued, hist>>

(***************************************************************************)
(* Specifications                                                          *)
(***************************************************************************)
\* the login forms that pass validation
AcceptedLoginForms == {f \in LoginForms : LoginErrors[f] = <<>>}
\* of these, the ones that hold the email and the password of a registered user
CredentialForms ==
  {f \in AcceptedLoginForms :
     \E u \in Registered : /\ u.email = LoginSanitized[f].email
                           /\ Compare(f.password, u.password)}

SignupSteps(forms) ==
  \/ \E c \in Clients, cookie \in Cookies, form \in forms :
       SignupBegin(c, cookie, form) /\ UNCHANGED limiter
  \/ \E c \in Clients : SignupFind(c)
  \/ \E c \in Clients : SignupSave(c)

LoginSteps(forms) ==
  \/ \E c \in Clients, cookie \in Cookies, form \in forms :
       LoginBegin(c, cookie, form) /\ UNCHANGED limiter
  \/ \E c \in Clients : LoginFind(c)
  \/ \E c \in Clients : LoginCompare(c)

GatedSteps ==
  \/ \E c \in Clients, cookie \in Cookies : HomeBegin(c, cookie)
  \/ \E c \in Clients : HomeFind(c)
  \/ \E c \in Clients, cookie \in Cookies : LogoutBegin(c, cookie)
  \/ \E c \in Clients : LogoutDestroy(c)
  \/ \E c \in Clients : LogoutDestroyFails(c)

EntrySteps ==
  \/ \E c \in Clients, cookie \in Cookies : GetRoot(c, cookie)
  \/ \E c \in Clients, cookie \in Cookies : GetSignup(c, cookie)

ClockSteps ==
  \/ \E sid \in DOMAIN sessions : Sweep(sid)
  \/ Tick

UserStoreSteps ==
  \/ \E c \in Clients : StoreFault(c)
  \/ \E u \in users : DeleteUser(u)

\* every route, from the empty collections
Next ==
  \/ SignupSteps(SignupForms) \/ LoginSteps(LoginForms) \/ GatedSteps
  \/ EntrySteps \/ ClockSteps \/ UserStoreSteps
  \/ \E sid \in pending : DestroyLands(sid)
Spec == Init /\ [][Next]_vars

\* clients that only sign up, from the empty collection
NextSignup == SignupSteps(SignupForms) \/ UserStoreSteps
SpecSignup == Init /\ [][NextSignup]_vars

\* clients that log in with well-formed forms, ask for the home page and log
\* out, over a collection of two users that may lose them, with the clock
\* stopped
NextSession ==
  \/ LoginSteps(AcceptedLoginForms) \/ GatedSteps \/ UserStoreSteps
  \/ \E sid \in pending : DestroyLands(sid)
SpecSession == InitRegistered /\ [][NextSession]_vars

\* clients that log in with the credentials of a user, ask for the home page
\* and log out, over a collection that keeps its two users, with the clock
\* running
NextExpiry == LoginSteps(CredentialForms) \/ GatedSteps \/ ClockSteps
SpecExpiry == InitRegistered /\ [][NextExpiry]_vars

\* clients that sign up and log in with one well-formed form and one
\* malformed form each, from the empty collections, with the clock running
NextForms ==
  \/ SignupSteps({SignupAnn, SignupMalformed})
  \/ LoginSteps({LoginA, LoginMalformed})
  \/ ClockSteps
SpecForms == Init /\ [][NextForms]_vars

\* the clients of SpecExpiry, who also ask for the two entry pages
NextEntry == NextExpiry \/ EntrySteps
SpecEntry == InitRegistered /\ [][NextEntry]_vars

\* clients that log in with well-formed forms, right or wrong, over a
\* collection of two users that may lose them, with the clock running
NextReject ==
  \/ LoginSteps(AcceptedLoginForms) \/ ClockSteps
  \/ \E u \in users : DeleteUser(u)
SpecReject == InitRegistered /\ [][NextReject]_vars

\* clients on every route, from the empty collections, with store calls that
\* may fail and the clock stopped
NextFaults ==
  \/ SignupSteps({SignupAnn, SignupAnnAgain}) \/ LoginSteps({LoginA}) \/ GatedSteps
  \/ \E c \in Clients : StoreFault(c)
SpecFaults == Init /\ [][NextFaults]_vars

\* clients that sign up with the forms around the limits of the rules
NextValidate == SignupSteps(ProbeForms)
SpecValidate == Init /\ [][NextValidate]_vars

\* the auth routes behind their limiter, from the empty collections
LimitedSteps ==
  \/ \E c \in Clients, cookie \in Cookies, form \in {SignupAnn, SignupMalformed} :
       AuthLimiter(c, "signup", cookie, SignupBegin(c, cookie, form))
  \/ \E c \in Clients, cookie \in Cookies, form \in {LoginA, LoginMalformed} :
       AuthLimiter(c, "login", cookie, LoginBegin(c, cookie, form))
  \/ \E c \in Clients : WindowReset(c)

NextLimiter ==
  \/ LimitedSteps
  \/ \E c \in Clients : SignupFind(c)
  \/ \E c \in Clients : SignupSave(c)
  \/ \E c \in Clients : LoginFind(c)
  \/ \E c \in Clients : LoginCompare(c)

SpecLimiter == Init /\ [][NextLimiter]_vars

\* signups and logins that spell one address in different ways
NextRoundTrip ==
  \/ SignupSteps(RoundTripSignups)
  \/ LoginSteps(RoundTripLogins)

SpecRoundTrip == Init /\ [][NextRoundTrip]_vars

\* signup next to login, the gated routes and the clock, from the empty
\* collections
NextSignupSession ==
  \/ SignupSteps({SignupAnn, SignupMalformed})
  \/ LoginSteps({LoginA})
  \/ GatedSteps
  \/ ClockSteps

SpecSignupSession == Init /\ [][NextSignupSession]_vars

TypeOK ==
  /\ nextId \in 1..(MaxUserIds + 1)
  /\ nextSid \in 1..(MaxSids + 1)
  /\ now \in 1..MaxTime
  /\ \A c \in Clients : reqs[c].pc \in {"idle", "find", "save", "compare", "destroy"}
  /\ last.pc \in {"idle", "done"}

(***************************************************************************)
(* Properties                                                              *)
(***************************************************************************)
\* the session a token resolves to now
Resolve(sid) == StoreGet(sessions, sid, now)

\* C1: no step leaves two users with the same username or the same email
\* in the collection; a signup whose save ends while a user holds its
\* username or its email (it lost the race for them) creates nothing and is
\* answered with an error, and one whose save ends while none does creates
\* exactly its own user
C1_UniqueIdentity ==
  [][/\ \A x, y \in users' :
          x # y => x.id # y.id /\ x.username # y.username /\ x.email # y.email
     /\ \A c \in Clients :
          LET r == reqs[c]
              taken == \E u \in users : \/ u.username = CastUsername(r.body.username)
                                        \/ u.email = CastEmail(r.body.email)
          IN (/\ r.route = "signup" /\ r.pc = "save" /\ reqs'[c] = Idle
              /\ last'.cause # "fault")
               => IF taken
                  THEN /\ users' = users
                       /\ last'.created = 0
                       /\ last'.resp.view = "error" /\ last'.resp.status >= 400
                  ELSE SchemaEmailMatch(CastEmail(r.body.email))
                         => \E u \in users' :
                              /\ u \notin users /\ users' = users \cup {u}
                              /\ u.username = CastUsername(r.body.username)
                              /\ u.email = CastEmail(r.body.email)
                              /\ last'.created = u.id
                              /\ last'.resp = Redirect("/")
    ]_vars

\* two signups raced for one identity: one stored its user, the other was
\* rejected by the unique index at its insert
C1_Witness ==
  /\ last.route = "signup" /\ last.cause = "DuplicateKey"
  /\ Cardinality(users) = 1

\* C2: a signup whose username or email is in the collection when it would
\* insert creates no user and is answered 400 "Email or username already
\* registered", whether its lookup or the unique index found the duplicate
C2_ConflictIs400 ==
  (last.route = "signup" /\ last.cause \in {"existing", "DuplicateKey"})
    => /\ last.created = 0
       /\ last.resp = RenderError(400, <<"Email or username already registered">>,
                                  "/signup")

\* C3: the login handler answers an unknown email and a wrong password with
\* the same response: 401, "Invalid email or password", back to "/"
C3_SameRejection ==
  \A x \in rejected :
    /\ x.resp = RenderError(401, <<"Invalid email or password">>, "/")
    /\ \A y \in rejected : x.resp = y.resp

\* both causes were answered
C3_Witness == {x.cause : x \in rejected} = {"unknown", "wrong"}

\* C4: a GET /home whose token resolved to no live session when it arrived
\* is redirected to "/" and renders nothing
C4_NoSessionNoHome ==
  (last.route = "home" /\ ~last.live) => last.resp = Redirect("/")

\* a GET /home arrived with the token of a session still stored but expired
C4_Witness ==
  /\ last.route = "home" /\ ~last.live
  /\ last.cookie \in DOMAIN sessions
  /\ last.resp.status = 302

\* C5: a login that ends with the email and the password of a user in the
\* collection is redirected to /home and leaves a session of that user's id
\* under its token; a GET /home whose session holds the id of a user in the
\* collection renders that user's username
C5_LoginBindsUser ==
  [][\A c \in Clients :
       LET r == reqs[c]
       IN /\ (/\ r.route = "login" /\ r.pc = "compare" /\ reqs'[c] = Idle
              /\ r.found \in users
              /\ Compare(r.body.password, r.found.password))
               => /\ last'.resp.status = 302 /\ last'.resp.location = "/home"
                  /\ StoreGet(sessions', last'.sid, now').userId = r.found.id
          /\ (/\ r.route = "home" /\ r.pc = "find" /\ reqs'[c] = Idle
              /\ last'.cause # "fault")
               => \A u \in users :
                    u.id = r.sess.userId => last'.resp = RenderHome(u.username)
    ]_vars

\* C6: the token of a session a logout destroyed resolves to nothing from
\* then on, and the logout of an absent session is answered like any other
C6_LoggedOutForGood ==
  /\ \A sid \in loggedOut : Resolve(sid) = NoSession
  /\ (last.route = "logout" /\ last.cause = "ok") => last.resp = Redirect("/")

C8_ValidSignupCreates ==
  /\ (last.route = "signup"
      /\ last.cause \notin {"invalid", "existing", "DuplicateKey", "fault"})
       => /\ last.created # 0
          /\ last.resp = Redirect("/")
  /\ \A g \in registry :
       /\ g.user.password # g.plain
       /\ Compare(g.plain, g.user.password)

\* C9: a GET /home whose session names a user the collection no longer
\* holds is redirected to "/" with the session's destroy issued, and the
\* home view is rendered only to a request that found its user; a token
\* whose session was destroyed this way resolves to nothing from then on
C9_OrphanSessionGone ==
  /\ (last.route = "home" /\ last.cause = "nouser")
       => /\ last.resp = Redirect("/")
          /\ last.sid # NoSid /\ last.destroyed = last.sid
  /\ (last.route = "home" /\ last.resp.view = "home") => last.cause = "ok"
  /\ \A sid \in orphaned : Resolve(sid) = NoSession

\* C10: a token resolves only within MaxAge of the login that stored its
\* session
C10_FixedLifetime ==
  \A sid \in DOMAIN issued :
    Resolve(sid) # NoSession => now < issued[sid] + MaxAge

\* C11: a POST /logout whose token resolves to no session is redirected to
\* "/" by the gate, with no destroy issued and the sessions as they were; one
\* whose token resolves goes on to the destroy, and is redirected to "/"
\* whether the store removed the session or reported an error
C11_LogoutRedirects ==
  [][\A c \in Clients :
       /\ \A cookie \in Cookies :
            LogoutBegin(c, cookie)
              => IF Resolve(cookie).userId = 0
                 THEN /\ reqs'[c] = Idle
                      /\ last'.resp = Redirect("/") /\ last'.destroyed = NoSid
                      /\ sessions' = sessions /\ pending' = pending
                 ELSE reqs'[c].route = "logout" /\ reqs'[c].pc = "destroy"
       /\ (reqs[c].route = "logout" /\ reqs[c].pc = "destroy" /\ reqs'[c] = Idle)
            => last'.resp = Redirect("/")
    ]_vars

\* a logout with a live session was redirected although the store failed to
\* destroy the session, which is still stored
C11_Witness ==
  /\ last.route = "logout" /\ last.live /\ last.cause = "fault"
  /\ last.resp = Redirect("/")
  /\ last.sid \in DOMAIN sessions

SignupRulesHold(form) ==
  LET u == Trim(form.username)
  IN /\ Len(u) >= 3 /\ Len(u) <= 30
     /\ \A i \in 1..Len(u) : u[i] \in Letters \cup Digits \cup {"_"}
     /\ IsEmail(Trim(form.email))
     /\ Len(form.password) >= 6
     /\ form.confirm = form.password
RulesHold == {form \in ProbeForms : SignupRulesHold(form)}

\* C14: a signup form enters the handler exactly when its trimmed username
\* has 3 to 30 characters, all letters, digits or underscores, its trimmed
\* email is well-formed, its password has at least 6 characters and its
\* confirmation equals its password; any other form is answered with at
\* least one message, "Passwords do not match" among them whenever the
\* confirmation differs from the password
C14_SignupRules ==
  [][\A c \in Clients, cookie \in Cookies, form \in ProbeForms :
       LET messages == {last'.resp.message[i] : i \in 1..Len(last'.resp.message)}
       IN SignupBegin(c, cookie, form)
            => IF form \in RulesHold
               THEN reqs'[c].route = "signup" /\ reqs'[c].pc = "find" /\ last' = last
               ELSE /\ reqs'[c] = Idle
                    /\ last'.resp.status = 400 /\ last'.cause = "invalid"
                    /\ messages # {}
                    /\ form.confirm # form.password
                         => "Passwords do not match" \in messages
    ]_vars

\* a form whose only fault is its confirmation was answered 400 with just
\* that message
C14_Witness ==
  /\ last.route = "signup" /\ last.cause = "invalid"
  /\ last.resp.message = <<"Passwords do not match">>

\* the first message of each failing field, in field order
FirstMessages(form) ==
  LET u == Trim(form.username)
  IN (IF Len(u) < 3 \/ Len(u) > 30
      THEN <<"Username must be between 3 and 30 characters">>
      ELSE IF \E i \in 1..Len(u) : u[i] \notin Letters \cup Digits \cup {"_"}
      THEN <<"Username can only contain letters, numbers, and underscores">>
      ELSE <<>>)
     \o (IF IsEmail(Trim(form.email)) THEN <<>> ELSE <<"Please provide a valid email">>)
     \o (IF Len(form.password) >= 6 THEN <<>>
         ELSE <<"Password must be at least 6 characters long">>)
     \o (IF form.confirm = form.password THEN <<>> ELSE <<"Passwords do not match">>)
FirstMessagesOf == [form \in ProbeForms |-> FirstMessages(form)]

\* C18: a rejected signup form is answered with one message for each failing
\* field, the message of the first check the field fails, in the order
\* username, email, password, confirm
C18_OneMessagePerField ==
  [][\A c \in Clients, cookie \in Cookies, form \in ProbeForms \ RulesHold :
       SignupBegin(c, cookie, form)
         => last'.resp.message =
              Join([i \in 1..Len(FirstMessagesOf[form]) |-> <<FirstMessagesOf[form][i]>>],
                   <<", ">>)
    ]_vars

\* C15: a login that succeeds leaves its user's session under a token that
\* was never issued before and sends that token; no step changes the userId
\* of a stored session
C15_FreshToken ==
  [][/\ \A c \in Clients :
          (/\ reqs[c].route = "login" /\ reqs[c].pc = "compare" /\ reqs'[c] = Idle
           /\ last'.resp.status = 302)
            => /\ last'.sid \notin DOMAIN issued
               /\ last'.resp.setCookie = last'.sid
               /\ last'.sid \in DOMAIN sessions'
               /\ sessions'[last'.sid].userId = reqs[c].found.id
     /\ \A sid \in DOMAIN sessions \cap DOMAIN sessions' :
          sessions'[sid].userId = sessions[sid].userId
    ]_vars

\* C16: a login answered 401 stores no session and sets no cookie; the
\* sessions, the session the request carried among them, and the users are
\* as before
C16_RejectedLoginChangesNothing ==
  [][\A c \in Clients :
       (/\ reqs[c].route = "login" /\ reqs[c].pc \in {"find", "compare"}
        /\ reqs'[c] = Idle /\ last'.resp.status = 401)
         => /\ last'.resp.setCookie = NoSid
            /\ sessions' = sessions /\ nextSid' = nextSid
            /\ users' = users
    ]_vars

C19_DestroyedBeforeRedirect ==
  [][\A c \in Clients :
       /\ (/\ reqs[c].route = "logout" /\ reqs[c].pc = "destroy"
           /\ reqs'[c] = Idle /\ last'.cause = "ok")
            => /\ last'.resp = Redirect("/")
               /\ reqs[c].sid \notin DOMAIN sessions'
       /\ (/\ reqs[c] = Idle /\ reqs'[c] # Idle
           /\ reqs'[c].cookie \in loggedOut)
            => reqs'[c].sess = NoSession
       /\ (/\ reqs[c] = Idle /\ reqs' = reqs /\ last' # last
           /\ last'.cookie \in loggedOut)
            => last'.sid = NoSid /\ ~last'.live
    ]_vars

\* the user a signup with this form has stored, if it has: the one that holds
\* the email the form is stored under and was submitted with its password
SignedUp(signup) ==
  {u \in users : /\ u.email = CastEmail(SignupSanitized[signup].email)
                 /\ [user |-> u, plain |-> signup.password] \in registry}

\* C20: once a signup with an email and a password has stored its user, a
\* login with that password and that email, as typed or in any other case,
\* passes validation, its findOne finds that user, and its compare of the
\* password with that user's hash ends in the redirect to /home
C20_LoginFindsSignedUp ==
  [][/\ \A login \in RoundTripLogins : LoginErrors[login] = <<>>
     /\ \A c \in Clients :
          (reqs[c].route = "login" /\ reqs'[c] # reqs[c])
            => \A signup \in RoundTripSignups :
                 \A login \in {l \in VariantLogins(signup) :
                                  LoginSanitized[l] = reqs[c].body} :
                   \A u \in SignedUp(signup) :
                     /\ LoginFind(c)
                          => reqs'[c].pc = "compare" /\ reqs'[c].found = u
                     /\ (LoginCompare(c) /\ reqs[c].found = u)
                          => /\ last'.cause = "ok"
                             /\ last'.resp.status = 302
                             /\ last'.resp.location = "/home"
    ]_vars

C20_Witness ==
  \E u \in users :
    /\ u.email = CastEmail(SignupSanitized[SignupCarol].email)
    /\ u.email # Trim(ToLower(EmailGmail))
    /\ last.route = "login" /\ last.cause = "ok"
    /\ last.sid \in DOMAIN sessions /\ sessions[last.sid].userId = u.id

\* C21: no step of a POST /signup, whether it ends in the redirect, in a 400
\* or in a 500, creates, removes or changes a session record or issues a
\* token, and its response sets no cookie: a client without a session has
\* none afterwards, and the session of a client that was logged in is the
\* same record, bound to the same user
C21_SignupLeavesSessions ==
  [][\A c \in Clients :
       (\/ reqs[c].route = "signup" /\ reqs'[c] # reqs[c]
        \/ reqs[c] = Idle /\ reqs'[c].route = "signup"
        \/ reqs[c] = Idle /\ reqs' = reqs /\ last' # last /\ last'.route = "signup")
         => /\ sessions' = sessions /\ nextSid' = nextSid /\ issued' = issued
            /\ reqs'[c] = Idle => last'.resp.setCookie = NoSid
    ]_vars

====
